---------------------------- MODULE Spec2Model ----------------------------
(***************************************************************************)
(* ReportFailureModal (ui/desktop/src/components/ReportFailureModal.tsx).  *)
(*                                                                         *)
(* The component's React state, the promises it has in flight and the      *)
(* handlers that run on the event loop.  One action is one run-to-         *)
(* completion piece of JavaScript: a handler up to its first await, or the *)
(* continuation of an async function after a fetch has settled.  A fetch   *)
(* and the reading of its body are taken as one settlement: between the    *)
(* two only locals of the async function are touched.                      *)
(***************************************************************************)
EXTENDS Integers, Sequences, FiniteSets, Bags, TLC

(***************************************************************************)
(* Bounds of the model.                                                    *)
(***************************************************************************)
MaxLen == 1      \* longest description typed from the alphabet
MaxExt == 1      \* largest extension list the backend answers with
MaxTasks == 2    \* collectSystemInfo calls in flight at once
MaxPosts == 2    \* POST /report-failure requests in flight at once
MaxOver == 2     \* how far below and above the title limit long descriptions go

(***************************************************************************)
(* Program constants.                                                      *)
(***************************************************************************)
TitleLimit == 60     \* description.substring(0, 60)
RecentLimit == 10    \* parsed.slice(-10)

(***************************************************************************)
(* JavaScript values.                                                      *)
(***************************************************************************)
Undefined == "undefined"
Null == <<>>               \* useState<SystemInfo | null>(null)
Some(x) == <<x>>
Truthy(s) == s # Undefined /\ s # ""
OrElse(a, b) == IF Truthy(a) THEN a ELSE b       \* a || b

Min(a, b) == IF a < b THEN a ELSE b
Max(a, b) == IF a < b THEN b ELSE a

(***************************************************************************)
(* Strings are sequences of characters.                                    *)
(***************************************************************************)
Alphabet == {" ", "a"}
Whitespace == {" "}

RECURSIVE SeqsUpTo(_)
SeqsUpTo(n) ==
    IF n = 0 THEN {<<>>}
    ELSE LET S == SeqsUpTo(n - 1)
         IN  S \cup {Append(s, c) : s \in {t \in S : Len(t) = n - 1}, c \in Alphabet}

RECURSIVE Repeat(_, _)
Repeat(c, n) == IF n = 0 THEN <<>> ELSE Append(Repeat(c, n - 1), c)

\* what the user can put into the textarea
Descriptions == SeqsUpTo(MaxLen)

RECURSIVE TrimStart(_)
TrimStart(s) ==
    IF s # <<>> /\ Head(s) \in Whitespace THEN TrimStart(Tail(s)) ELSE s

RECURSIVE TrimEnd(_)
TrimEnd(s) ==
    IF s # <<>> /\ s[Len(s)] \in Whitespace
    THEN TrimEnd(SubSeq(s, 1, Len(s) - 1))
    ELSE s

Trim(s) == TrimEnd(TrimStart(s))             \* String.prototype.trim
Blank(s) == Trim(s) = <<>>                   \* !description.trim()

Substring(s, from, to) == SubSeq(s, from + 1, Min(to, Len(s)))

TitlePrefix == <<"[FAILURE REPORT] ">>
Ellipsis == <<".", ".", ".">>

\* a title that counts the limit itself as too long
TitleOffByOne(d) ==
    TitlePrefix \o Substring(d, 0, TitleLimit)
                \o (IF Len(d) >= TitleLimit THEN Ellipsis ELSE <<>>)

\* `[FAILURE REPORT] ${d.substring(0, 60)}${d.length > 60 ? '...' : ''}`
Title(d) ==
    TitlePrefix \o Substring(d, 0, TitleLimit)
                \o (IF Len(d) > TitleLimit THEN Ellipsis ELSE <<>>)

\* descriptions around the title limit: a first character, a last character
\* and the same character in between
TitleLengths == {1, 2} \cup ((TitleLimit - MaxOver)..(TitleLimit + MaxOver))

Framed(h, m, t, n) ==
    IF n = 1 THEN <<h>> ELSE (<<h>> \o Repeat(m, n - 2)) \o <<t>>

TitleInputs ==
    {Framed(h, m, t, n) : h \in Alphabet, m \in Alphabet, t \in Alphabet,
                          n \in TitleLengths}

(***************************************************************************)
(* The state.                                                              *)
(***************************************************************************)
VARIABLES
    isOpen,         \* prop, owned by the parent
    description,    \* useState('')
    systemInfo,     \* useState<SystemInfo | null>(null)
    recentErrors,   \* useState<string[]>([])
    isSubmitting,   \* useState(false)
    submitStatus,   \* useState<'idle' | 'success' | 'error'>('idle')
    issueUrl,       \* useState('')
    env,            \* window.appConfig, window.electron, localStorage
    tasks,          \* collectSystemInfo calls in flight, a bag: promises have no order
    posts,          \* POST /report-failure requests in flight, a bag; each is
                    \* its body and, as history, whether the modal has not been
                    \* reopened since it was sent
    infoSetThisOpen,\* history: setSystemInfo ran since the modal was opened
    ev,             \* history: the piece of code that ran last
    calls           \* history: calls the last step made to the outside

state == <<description, systemInfo, recentErrors, isSubmitting, submitStatus, issueUrl>>
vars == <<isOpen, description, systemInfo, recentErrors, isSubmitting, submitStatus,
          issueUrl, env, tasks, posts, infoSetThisOpen, ev, calls>>

NoCalls ==
    [onClose |-> 0, alert |-> 0, post |-> 0, collect |-> 0, providers |-> 0,
     setSystemInfo |-> 0]

StoredLog ==
    <<"e01", "e02", "e03", "e04", "e05", "e06", "e07", "e08", "e09", "e10", "e11">>

\* the host the modal runs in: what window.appConfig and window.electron
\* answer and what localStorage holds under 'goose_recent_errors'; nothing
\* in this component writes any of them.  GOOSE_VERSION is not configured
\* and version is, the platform is known and the architecture is not.
Envs ==
    { [GOOSE_VERSION |-> Undefined, version |-> "0.9", platform |-> "darwin",
       arch |-> Undefined, stored |-> [kind |-> "array", items |-> StoredLog]] }

Init ==
    /\ isOpen = FALSE
    /\ description = <<>>
    /\ systemInfo = Null
    /\ recentErrors = <<>>
    /\ isSubmitting = FALSE
    /\ submitStatus = "idle"
    /\ issueUrl = ""
    /\ env \in Envs
    /\ tasks = EmptyBag
    /\ posts = EmptyBag
    /\ infoSetThisOpen = FALSE
    /\ ev = [op |-> "mount"]
    /\ calls = NoCalls

BagAdd(B, x) == B (+) SetToBag({x})
BagRemove(B, x) == B (-) SetToBag({x})


(***************************************************************************)
(* Diagnostics: getExtensionCount, collectSystemInfo, collectRecentErrors. *)
(***************************************************************************)
\* how GET /extension/list can settle
ExtOutcomes ==
    {[kind |-> k, len |-> 0] : k \in {"reject", "notOk", "badJson", "notArray"}}
    \cup {[kind |-> "array", len |-> n] : n \in 0..MaxExt}

\* getExtensionCount: the awaited result, or the exception that leaves it
GetExtensionCountUncaught(o) ==
    IF o.kind \in {"reject", "badJson"} THEN [throws |-> TRUE, value |-> 0]
    ELSE IF o.kind = "array" THEN [throws |-> FALSE, value |-> o.len]
    ELSE [throws |-> FALSE, value |-> 0]

GetExtensionCount(o) ==
    IF o.kind \in {"reject", "badJson"}
    THEN [throws |-> FALSE, value |-> 0]            \* catch, then return 0
    ELSE IF o.kind = "notOk"
    THEN [throws |-> FALSE, value |-> 0]            \* falls through to return 0
    ELSE IF o.kind = "array"
    THEN [throws |-> FALSE, value |-> o.len]        \* extensions.length
    ELSE [throws |-> FALSE, value |-> 0]            \* Array.isArray is false

\* how GET /agent/providers can settle; first is providers[0]
ProvOutcomes ==
    {[kind |-> k, first |-> Undefined] :
        k \in {"reject", "notOk", "badJson", "notArray", "empty", "firstNull"}}
    \cup {[kind |-> "array", first |-> n] : n \in {Undefined, "", "openai"}}

\* the inner try block of collectSystemInfo: the value info.providerType has
\* after it, Undefined when it was never assigned
DetectProviderUncaught(o) ==
    IF o.kind \in {"reject", "badJson", "firstNull"}
    THEN [throws |-> TRUE, value |-> Undefined]
    ELSE IF o.kind = "array"
    THEN [throws |-> FALSE, value |-> OrElse(o.first, "Unknown Provider")]
    ELSE [throws |-> FALSE, value |-> Undefined]

DetectProvider(o) ==
    IF o.kind \in {"reject", "badJson", "firstNull"}
    THEN [throws |-> FALSE, value |-> Undefined]    \* catch: console.debug
    ELSE IF o.kind = "array"
    THEN [throws |-> FALSE, value |-> OrElse(o.first, "Unknown Provider")]
    ELSE [throws |-> FALSE, value |-> Undefined]    \* not ok, not an array, empty

\* the fields of info that are read before the first await
BaseInfo(e) ==
    [ gooseVersion |-> OrElse(e.GOOSE_VERSION, OrElse(e.version, "Development")),
      osVersion    |-> "userAgent",
      platform     |-> OrElse(e.platform, "Unknown"),
      architecture |-> OrElse(e.arch, "Unknown") ]

MakeInfo(base, count, provider) ==
    [ gooseVersion   |-> base.gooseVersion,
      osVersion      |-> base.osVersion,
      platform       |-> base.platform,
      architecture   |-> base.architecture,
      providerType   |-> provider,
      extensionCount |-> count ]

\* a collectSystemInfo call suspended at its first await
NewTask ==
    [phase |-> "ext", base |-> BaseInfo(env), extensionCount |-> 0, current |-> TRUE]

SliceLast(a, n) == SubSeq(a, Max(Len(a) - n, 0) + 1, Len(a))     \* a.slice(-n)

\* collectRecentErrors: the value handed to setRecentErrors; stored.kind is
\* "throws" (getItem throws), "none" (no item), "badJson", "notArray" or "array"
CollectRecentErrors(stored) ==
    IF stored.kind = "throws"
    THEN <<"Failed to collect error logs - but this error is now captured!">>
    ELSE LET found == IF stored.kind = "array"
                      THEN SliceLast(stored.items, RecentLimit)
                      ELSE <<>>
         IN  IF Len(found) = 0
             THEN <<"Recent errors are logged to the main process via ErrorBoundary">>
             ELSE found

\* history: the collection (or request) of the open before stops being the
\* current one
Retire(B) ==
    LET cur == {t \in BagToSet(B) : t.current}
    IN  IF cur = {} THEN B
        ELSE LET c == CHOOSE t \in cur : TRUE
             IN  BagAdd(BagRemove(B, c), [c EXCEPT !.current = FALSE])

\* lines 137-139 of the open effect
ResetFormKeepsUrl ==
    /\ description' = <<>>
    /\ submitStatus' = "idle"
    /\ UNCHANGED issueUrl

ResetForm ==
    /\ description' = <<>>
    /\ submitStatus' = "idle"
    /\ issueUrl' = ""

\* the parent turns isOpen from false to true and the effect on [isOpen] runs
Open ==
    /\ ~isOpen
    /\ BagCardinality(tasks) < MaxTasks
    /\ isOpen' = TRUE
    /\ tasks' = BagAdd(Retire(tasks), NewTask)         \* collectSystemInfo()
    /\ recentErrors' = CollectRecentErrors(env.stored)
    /\ ResetForm
    /\ infoSetThisOpen' = FALSE
    /\ ev' = [op |-> "open", prior |-> submitStatus]
    /\ calls' = [NoCalls EXCEPT !.collect = 1]
    /\ posts' = Retire(posts)
    /\ UNCHANGED <<systemInfo, isSubmitting, env>>

\* a collectSystemInfo that publishes what it has before the provider lookup
ExtSettlePublishes(t, o) ==
    /\ BagIn(t, tasks)
    /\ t.phase = "ext"
    /\ LET r == GetExtensionCount(o)
           next == [t EXCEPT !.phase = "prov", !.extensionCount = r.value]
       IN  /\ tasks' = BagAdd(BagRemove(tasks, t), next)
           /\ systemInfo' = Some(MakeInfo(t.base, r.value, Undefined))
           /\ ev' = [op |-> "extSettled", failed |-> (o.kind # "array"), len |-> o.len,
                     escaped |-> r.throws, count |-> r.value, current |-> t.current]
    /\ calls' = [NoCalls EXCEPT !.providers = 1, !.setSystemInfo = 1]
    /\ UNCHANGED <<isOpen, description, recentErrors, isSubmitting, submitStatus,
                   issueUrl, env, posts, infoSetThisOpen>>

\* GET /extension/list settles for the collection t: getExtensionCount
\* returns and collectSystemInfo goes on to request the providers
ExtSettle(t, o) ==
    /\ BagIn(t, tasks)
    /\ t.phase = "ext"
    /\ LET r == GetExtensionCount(o)
           next == [t EXCEPT !.phase = "prov", !.extensionCount = r.value]
       IN  /\ tasks' = IF r.throws
                       THEN BagRemove(tasks, t)     \* outer catch: console.error
                       ELSE BagAdd(BagRemove(tasks, t), next)
           /\ ev' = [op |-> "extSettled", failed |-> (o.kind # "array"), len |-> o.len,
                     escaped |-> r.throws, count |-> r.value, current |-> t.current]
           /\ calls' = IF r.throws THEN NoCalls     \* fetch of /agent/providers
                       ELSE [NoCalls EXCEPT !.providers = 1]
    /\ UNCHANGED <<isOpen, state, env, posts, infoSetThisOpen>>

\* GET /agent/providers settles for the collection t: the inner try ends and
\* setSystemInfo(info) runs
ProvSettle(t, o) ==
    /\ BagIn(t, tasks)
    /\ t.phase = "prov"
    /\ LET r == DetectProvider(o)
       IN  IF r.throws
           THEN /\ UNCHANGED <<systemInfo, infoSetThisOpen>>    \* outer catch
                /\ calls' = NoCalls
           ELSE /\ systemInfo' = Some(MakeInfo(t.base, t.extensionCount, r.value))
                /\ infoSetThisOpen' = isOpen
                /\ calls' = [NoCalls EXCEPT !.setSystemInfo = 1]
    /\ tasks' = BagRemove(tasks, t)
    /\ ev' = [op |-> "provSettled", failed |-> (o.kind # "array"),
              count |-> t.extensionCount, escaped |-> DetectProvider(o).throws,
              again |-> (isOpen /\ infoSetThisOpen)]
    /\ UNCHANGED <<isOpen, description, recentErrors, isSubmitting, submitStatus,
                   issueUrl, env, posts>>


(***************************************************************************)
(* What is rendered (lines 200-324).                                       *)
(***************************************************************************)
FormRendered == isOpen /\ submitStatus # "success"
SubmitButtonRenderedAlways == isOpen
SubmitButtonRendered == isOpen /\ submitStatus # "success"
SubmitDisabledBlankOnly == Blank(description)
SubmitDisabledUntilInfo == isSubmitting \/ Blank(description) \/ systemInfo = Null
SubmitDisabled == isSubmitting \/ Blank(description)
TextareaDisabled == isSubmitting
ViewIssueLinkRendered == isOpen /\ submitStatus = "success" /\ Truthy(issueUrl)
ManualReportLinkRendered == isOpen /\ submitStatus # "success" /\ submitStatus = "error"
LoadingIndicatorShown == FormRendered /\ systemInfo = Null

(***************************************************************************)
(* The form: the textarea, handleSubmit, handleClose.                      *)
(***************************************************************************)
\* onChange of the textarea: setDescription(e.target.value)
Edit(d) ==
    /\ FormRendered
    /\ ~TextareaDisabled
    /\ description' = d
    /\ ev' = [op |-> "edit"]
    /\ calls' = NoCalls
    /\ UNCHANGED <<isOpen, systemInfo, recentErrors, isSubmitting, submitStatus,
                   issueUrl, env, tasks, posts, infoSetThisOpen>>

\* the body of the request handleSubmit sends (the timestamp left out)
IssueData ==
    [ title        |-> Title(description),
      description  |-> description,
      systemInfo   |-> systemInfo,
      recentErrors |-> recentErrors ]

\* the request handleSubmit puts in flight
NewPost == [data |-> IssueData, current |-> TRUE]

\* handleSubmit up to `await fetch`
HandleSubmitNoValidation ==
    /\ BagCardinality(posts) < MaxPosts
    /\ isSubmitting' = TRUE
    /\ submitStatus' = "idle"
    /\ posts' = BagAdd(posts, NewPost)
    /\ ev' = [op |-> "handleSubmit", blank |-> Blank(description), from |-> submitStatus]
    /\ calls' = [NoCalls EXCEPT !.post = 1]
    /\ UNCHANGED <<isOpen, description, systemInfo, recentErrors, issueUrl, env,
                   tasks, infoSetThisOpen>>

\* a handleSubmit that leaves submitStatus as it finds it
HandleSubmitKeepsStatus ==
    IF Blank(description)
    THEN /\ ev' = [op |-> "handleSubmit", blank |-> TRUE, from |-> submitStatus]
         /\ calls' = [NoCalls EXCEPT !.alert = 1]
         /\ UNCHANGED <<isOpen, state, env, tasks, posts, infoSetThisOpen>>
    ELSE /\ BagCardinality(posts) < MaxPosts
         /\ isSubmitting' = TRUE
         /\ posts' = BagAdd(posts, NewPost)
         /\ ev' = [op |-> "handleSubmit", blank |-> FALSE, from |-> submitStatus]
         /\ calls' = [NoCalls EXCEPT !.post = 1]
         /\ UNCHANGED <<isOpen, description, systemInfo, recentErrors, submitStatus,
                        issueUrl, env, tasks, infoSetThisOpen>>

HandleSubmit ==
    IF Blank(description)
    THEN /\ ev' = [op |-> "handleSubmit", blank |-> TRUE, from |-> submitStatus]
         /\ calls' = [NoCalls EXCEPT !.alert = 1]       \* window.alert, return
         /\ UNCHANGED <<isOpen, state, env, tasks, posts, infoSetThisOpen>>
    ELSE /\ BagCardinality(posts) < MaxPosts
         /\ isSubmitting' = TRUE
         /\ submitStatus' = "idle"
         /\ posts' = BagAdd(posts, NewPost)
         /\ ev' = [op |-> "handleSubmit", blank |-> FALSE, from |-> submitStatus]
         /\ calls' = [NoCalls EXCEPT !.post = 1]
         /\ UNCHANGED <<isOpen, description, systemInfo, recentErrors, issueUrl, env,
                        tasks, infoSetThisOpen>>

\* a click on the Submit Report button
ClickSubmit ==
    /\ SubmitButtonRendered
    /\ ~SubmitDisabled
    /\ HandleSubmit

\* handleSubmit reached although the description is blank: a click that the
\* button's disabled attribute does not stop
SubmitWhileBlank ==
    /\ SubmitButtonRendered
    /\ Blank(description)
    /\ HandleSubmit

\* how POST /report-failure can settle; url is result.issueUrl
PostOutcomes ==
    {[kind |-> k, url |-> Undefined] : k \in {"reject", "notOk", "badJson", "nullBody"}}
    \cup {[kind |-> "ok", url |-> u] : u \in {Undefined, "", "https://issue/1"}}

\* the rest of handleSubmit once its request has settled: the outcome
\* that reaches setSubmitStatus, and the exception that leaves the function
SubmitResultNoCatch(o) ==
    IF o.kind = "ok"
    THEN [throws |-> FALSE, status |-> "success", setUrl |-> TRUE, url |-> o.url]
    ELSE IF o.kind = "notOk"
    THEN [throws |-> FALSE, status |-> "error", setUrl |-> FALSE, url |-> Undefined]
    ELSE [throws |-> TRUE, status |-> "idle", setUrl |-> FALSE, url |-> Undefined]

SubmitResultDropsUrl(o) ==
    IF o.kind = "ok"
    THEN [throws |-> FALSE, status |-> "success", setUrl |-> FALSE, url |-> Undefined]
    ELSE [throws |-> FALSE, status |-> "error", setUrl |-> FALSE, url |-> Undefined]

SubmitResult(o) ==
    IF o.kind = "ok"
    THEN [throws |-> FALSE, status |-> "success", setUrl |-> TRUE, url |-> o.url]
    ELSE IF o.kind = "notOk"
    THEN [throws |-> FALSE, status |-> "error", setUrl |-> FALSE, url |-> Undefined]
    ELSE \* fetch rejected, json() threw, or result is null: catch
         [throws |-> FALSE, status |-> "error", setUrl |-> FALSE, url |-> Undefined]

\* a handleSubmit that sends the request again when it has failed
PostSettleRetries(p, o) ==
    /\ BagIn(p, posts)
    /\ LET r == SubmitResult(o)
       IN  /\ issueUrl' = IF r.setUrl THEN r.url ELSE issueUrl
           /\ submitStatus' = IF r.status = "error" THEN "idle" ELSE r.status
           /\ isSubmitting' = (r.status = "error")
           /\ posts' = IF r.status = "error" THEN posts ELSE BagRemove(posts, p)
           /\ calls' = IF r.status = "error" THEN [NoCalls EXCEPT !.post = 1] ELSE NoCalls
           /\ ev' = [op |-> "postSettled", ok |-> (o.kind \in {"ok", "nullBody"}),
                     nullBody |-> (o.kind = "nullBody"), url |-> o.url,
                     escaped |-> r.throws, current |-> p.current]
    /\ UNCHANGED <<isOpen, description, systemInfo, recentErrors, env, tasks,
                   infoSetThisOpen>>

\* a handleSubmit without its finally block
PostSettleNoFinally(p, o) ==
    /\ BagIn(p, posts)
    /\ LET r == SubmitResult(o)
       IN  /\ issueUrl' = IF r.setUrl THEN r.url ELSE issueUrl
           /\ submitStatus' = IF r.throws THEN submitStatus ELSE r.status
           /\ isSubmitting' = (r.status = "error")
           /\ ev' = [op |-> "postSettled", ok |-> (o.kind \in {"ok", "nullBody"}),
                     nullBody |-> (o.kind = "nullBody"), url |-> o.url,
                     escaped |-> r.throws, current |-> p.current]
    /\ posts' = BagRemove(posts, p)
    /\ calls' = NoCalls
    /\ UNCHANGED <<isOpen, description, systemInfo, recentErrors, env, tasks,
                   infoSetThisOpen>>

PostSettle(p, o) ==
    /\ BagIn(p, posts)
    /\ LET r == SubmitResult(o)
       IN  /\ issueUrl' = IF r.setUrl THEN r.url ELSE issueUrl
           /\ submitStatus' = IF r.throws THEN submitStatus ELSE r.status
           /\ ev' = [op |-> "postSettled", ok |-> (o.kind \in {"ok", "nullBody"}),
                     nullBody |-> (o.kind = "nullBody"), url |-> o.url,
                     escaped |-> r.throws, current |-> p.current]
    /\ isSubmitting' = FALSE                             \* finally
    /\ posts' = BagRemove(posts, p)
    /\ calls' = NoCalls
    /\ UNCHANGED <<isOpen, description, systemInfo, recentErrors, env, tasks,
                   infoSetThisOpen>>

\* handleClose: the Cancel/Close button or the Modal's own close request.
\* onClose hands the decision to the parent, which may or may not close.
HandleCloseAlways ==
    /\ isOpen
    /\ \E closes \in BOOLEAN :
          /\ isOpen' = ~closes
          /\ infoSetThisOpen' = (infoSetThisOpen /\ ~closes)
    /\ ev' = [op |-> "handleClose", submitting |-> isSubmitting]
    /\ calls' = [NoCalls EXCEPT !.onClose = 1]
    /\ UNCHANGED <<state, env, tasks, posts>>

HandleClose ==
    /\ isOpen
    /\ IF ~isSubmitting
       THEN /\ \E closes \in BOOLEAN :
                  /\ isOpen' = ~closes
                  /\ infoSetThisOpen' = (infoSetThisOpen /\ ~closes)
            /\ calls' = [NoCalls EXCEPT !.onClose = 1]
       ELSE /\ calls' = NoCalls
            /\ UNCHANGED <<isOpen, infoSetThisOpen>>
    /\ ev' = [op |-> "handleClose", submitting |-> isSubmitting]
    /\ UNCHANGED <<state, env, tasks, posts>>

\* the parent turns isOpen to false on its own, without a close request
ParentClose ==
    /\ isOpen
    /\ isOpen' = FALSE
    /\ infoSetThisOpen' = FALSE
    /\ ev' = [op |-> "parentClose"]
    /\ calls' = NoCalls
    /\ UNCHANGED <<state, env, tasks, posts>>

(***************************************************************************)
(* The specifications.                                                     *)
(***************************************************************************)
Next ==
    \/ Open
    \/ \E d \in Descriptions : Edit(d)
    \/ ClickSubmit
    \/ HandleClose
    \/ ParentClose
    \/ \E t \in BagToSet(tasks) : \E o \in ExtOutcomes : ExtSettle(t, o)
    \/ \E t \in BagToSet(tasks) : \E o \in ProvOutcomes : ProvSettle(t, o)
    \/ \E p \in BagToSet(posts) : \E o \in PostOutcomes : PostSettle(p, o)

Spec == Init /\ [][Next]_vars

\* the same component when handleSubmit can also be reached with a blank
\* description
NextHandler ==
    \/ Open
    \/ \E d \in Descriptions : Edit(d)
    \/ ClickSubmit
    \/ SubmitWhileBlank
    \/ HandleClose
    \/ ParentClose
    \/ \E t \in BagToSet(tasks) : \E o \in ExtOutcomes : ExtSettle(t, o)
    \/ \E t \in BagToSet(tasks) : \E o \in ProvOutcomes : ProvSettle(t, o)
    \/ \E p \in BagToSet(posts) : \E o \in PostOutcomes : PostSettle(p, o)

SpecHandler == Init /\ [][NextHandler]_vars

\* the component when every request to /report-failure is answered or fails
\* in the end: fetch resolves or rejects, and the continuation of handleSubmit
\* is then run by the event loop
SubmissionSettles ==
    \E p \in BagToSet(posts) : \E o \in PostOutcomes : PostSettle(p, o)

SpecLive == Init /\ [][Next]_vars /\ WF_vars(SubmissionSettles)

\* the component under a parent that turns isOpen to false only in answer to
\* onClose
NextCooperative ==
    \/ Open
    \/ \E d \in Descriptions : Edit(d)
    \/ ClickSubmit
    \/ HandleClose
    \/ \E t \in BagToSet(tasks) : \E o \in ExtOutcomes : ExtSettle(t, o)
    \/ \E t \in BagToSet(tasks) : \E o \in ProvOutcomes : ProvSettle(t, o)
    \/ \E p \in BagToSet(posts) : \E o \in PostOutcomes : PostSettle(p, o)

SpecCooperative == Init /\ [][NextCooperative]_vars

\* the report built by handleSubmit, on descriptions around the title limit:
\* the modal is open, its collection has completed and the description has
\* been typed; the report is submitted, and resubmitted after a failure
InitTitle ==
    /\ isOpen = TRUE
    /\ description \in TitleInputs
    /\ env \in Envs
    /\ systemInfo = Some(MakeInfo(BaseInfo(env), 0, Undefined))
    /\ recentErrors = CollectRecentErrors(env.stored)
    /\ isSubmitting = FALSE
    /\ submitStatus = "idle"
    /\ issueUrl = ""
    /\ tasks = EmptyBag
    /\ posts = EmptyBag
    /\ infoSetThisOpen = TRUE
    /\ ev = [op |-> "edit"]
    /\ calls = NoCalls

NextTitle ==
    \/ ClickSubmit
    \/ \E p \in BagToSet(posts) : \E o \in PostOutcomes : PostSettle(p, o)

SpecTitle == InitTitle /\ [][NextTitle]_vars

TypeOK ==
    /\ isOpen \in BOOLEAN
    /\ description \in Descriptions \cup TitleInputs
    /\ isSubmitting \in BOOLEAN
    /\ submitStatus \in {"idle", "success", "error"}
    /\ issueUrl \in {Undefined, "", "https://issue/1"}
    /\ Len(systemInfo) <= 1
    /\ BagCardinality(tasks) <= MaxTasks
    /\ BagCardinality(posts) <= MaxPosts


(***************************************************************************)
(* The status the user sees.                                               *)
(***************************************************************************)
Status ==
    IF isSubmitting THEN "Submitting"
    ELSE IF submitStatus = "success" THEN "Success"
    ELSE IF submitStatus = "error" THEN "Error"
    ELSE "Idle"

(***************************************************************************)
(* Properties.                                                             *)
(***************************************************************************)

\* C1: every step that turns isOpen from false to true leaves the form
\* reset: description empty, submitStatus 'idle', issueUrl empty, whatever
\* they were before.
C1_OpenResetsForm ==
    [][(~isOpen /\ isOpen') =>
          (description' = <<>> /\ submitStatus' = "idle" /\ issueUrl' = "")]_vars

\* the modal reopened after a submission that had succeeded
C1_Witness ==
    /\ ev.op = "open"
    /\ ev.prior = "success"
    /\ isOpen
    /\ description = <<>> /\ submitStatus = "idle" /\ issueUrl = ""

\* C2: handleSubmit with an empty or whitespace-only description changes
\* neither isSubmitting, submitStatus, issueUrl nor the requests in flight,
\* sends no POST and raises the validation alert.
C2_BlankSubmitIsRejected ==
    [][(ev'.op = "handleSubmit" /\ Blank(description)) =>
          /\ UNCHANGED <<isSubmitting, submitStatus, issueUrl, posts>>
          /\ calls'.post = 0
          /\ calls'.alert = 1]_vars

\* handleSubmit has just run on a description of one space
C2_Witness ==
    /\ ev.op = "handleSubmit"
    /\ ev.blank
    /\ description = <<" ">>
    /\ calls.alert = 1
    /\ ~isSubmitting /\ submitStatus = "idle" /\ posts = EmptyBag

\* C3: when the POST is rejected, answers not ok, or its body cannot be
\* parsed, the submission settles with submitStatus 'error' and isSubmitting
\* false, nothing escapes handleSubmit, and an open modal shows the
\* manual-report link.
C3_FailedSubmitSettlesInError ==
    (ev.op = "postSettled" /\ ~ev.ok) =>
        /\ submitStatus = "error"
        /\ ~isSubmitting
        /\ ~ev.escaped
        /\ (isOpen => ManualReportLinkRendered)

C3_Witness ==
    /\ ev.op = "postSettled"
    /\ ~ev.ok
    /\ submitStatus = "error"
    /\ ManualReportLinkRendered

\* C4 as stated: whenever the response is ok and its body parses, the
\* submission settles with submitStatus 'success', isSubmitting false and
\* issueUrl the returned one, and the View Issue link shows exactly when that
\* URL is non-empty.
C4_OkResponseSettlesInSuccess ==
    (ev.op = "postSettled" /\ ev.ok) =>
        /\ submitStatus = "success"
        /\ ~isSubmitting
        /\ issueUrl = ev.url
        /\ (ViewIssueLinkRendered <=> (isOpen /\ Truthy(ev.url)))

\* C4 amended: the same, when the parsed body is not null.
C4_NonNullBodySettlesInSuccess ==
    (ev.op = "postSettled" /\ ev.ok /\ ~ev.nullBody) =>
        /\ submitStatus = "success"
        /\ ~isSubmitting
        /\ issueUrl = ev.url
        /\ (ViewIssueLinkRendered <=> (isOpen /\ Truthy(ev.url)))

C4_Witness ==
    /\ ev.op = "postSettled"
    /\ ev.ok /\ ~ev.nullBody
    /\ issueUrl = "https://issue/1"
    /\ ViewIssueLinkRendered

\* C5: a close request while isSubmitting is true does not call onClose and
\* changes nothing; a close request while isSubmitting is false calls
\* onClose exactly once.
C5_CloseSuppressedWhileSubmitting ==
    [][(ev'.op = "handleClose") =>
          IF isSubmitting
          THEN calls'.onClose = 0 /\ UNCHANGED <<isOpen, state, tasks, posts>>
          ELSE calls'.onClose = 1]_vars

C5_Witness ==
    /\ ev.op = "handleClose"
    /\ ev.submitting
    /\ calls.onClose = 0
    /\ isOpen /\ isSubmitting

\* C6 as stated: the status changes only Idle -> Submitting on a submit click,
\* Submitting -> Success or Error when the request settles, and Success or
\* Error -> Idle when the modal is opened.
C6_OnlySpecTransitions ==
    [][(Status' # Status) =>
          \/ Status = "Idle" /\ Status' = "Submitting" /\ ev'.op = "handleSubmit"
          \/ Status = "Submitting" /\ Status' \in {"Success", "Error"}
                /\ ev'.op = "postSettled"
          \/ Status \in {"Success", "Error"} /\ Status' = "Idle" /\ ev'.op = "open"]_vars

\* C6 amended: those transitions, and Error -> Submitting on a submit click.
C6_TransitionsWithRetry ==
    [][(Status' # Status) =>
          \/ Status \in {"Idle", "Error"} /\ Status' = "Submitting"
                /\ ev'.op = "handleSubmit"
          \/ Status = "Submitting" /\ Status' \in {"Success", "Error"}
                /\ ev'.op = "postSettled"
          \/ Status \in {"Success", "Error"} /\ Status' = "Idle" /\ ev'.op = "open"]_vars

\* a submit click that left Error
C6_Witness ==
    /\ ev.op = "handleSubmit"
    /\ ev.from = "error"
    /\ Status = "Submitting"

\* C7: when GET /extension/list fails in any way getExtensionCount yields 0,
\* when it answers an array it yields the array's length; nothing escapes to
\* collectSystemInfo, which goes on with that count, and the SystemInfo a
\* collection publishes carries the count the collection got.
C7_ExtensionCountDefaultsToZero ==
    /\ (ev.op = "extSettled") =>
          /\ ~ev.escaped
          /\ ev.count = (IF ev.failed THEN 0 ELSE ev.len)
          /\ \E t \in BagToSet(tasks) : t.phase = "prov" /\ t.extensionCount = ev.count
    /\ (ev.op = "provSettled") =>
          /\ systemInfo # Null
          /\ systemInfo[1].extensionCount = ev.count

\* a failed extension fetch has left its collection waiting for the
\* providers with a count of 0
C7_Witness ==
    /\ ev.op = "extSettled"
    /\ ev.failed
    /\ \E t \in BagToSet(tasks) : t.phase = "prov" /\ t.extensionCount = 0

\* C8: when the provider lookup fails, collectSystemInfo still publishes a
\* SystemInfo with the version, platform, architecture and extension count it
\* gathered and with providerType unset, and neither submitStatus nor
\* isSubmitting changes.
C8_ProviderFailureIsSwallowed ==
    /\ []((ev.op = "provSettled" /\ ev.failed) =>
            /\ calls.setSystemInfo = 1
            /\ systemInfo = << [ gooseVersion   |-> BaseInfo(env).gooseVersion,
                                 osVersion      |-> BaseInfo(env).osVersion,
                                 platform       |-> BaseInfo(env).platform,
                                 architecture   |-> BaseInfo(env).architecture,
                                 providerType   |-> Undefined,
                                 extensionCount |-> ev.count ] >>)
    /\ [][(ev'.op = "provSettled") => UNCHANGED <<submitStatus, isSubmitting>>]_vars

\* a failed provider lookup published a SystemInfo while a report was being
\* submitted
C8_Witness ==
    /\ ev.op = "provSettled"
    /\ ev.failed
    /\ systemInfo # Null
    /\ systemInfo[1].providerType = Undefined
    /\ systemInfo[1].extensionCount = MaxExt
    /\ isSubmitting

\* C9 as stated: while the collection started by the current open is
\* pending, systemInfo is null, so the panel shows the loading indicator.
C9_NullWhileCurrentCollectionPending ==
    (isOpen /\ \E t \in BagToSet(tasks) : t.current) => systemInfo = Null

\* C10 as stated: every open starts exactly one collection, and once
\* systemInfo has been set during an open it is not set again while the
\* modal stays open.
C10_SetOncePerOpen ==
    /\ (ev.op = "open") => calls.collect = 1
    /\ (ev.op = "provSettled" /\ calls.setSystemInfo = 1) => ~ev.again

\* C11: a POST is dispatched by a step exactly when that step is handleSubmit
\* run on a non-blank description while no submission is in flight, and it
\* dispatches one POST; so POSTs and accepted clicks are equal in number, and
\* after a submission has settled in Error nothing but a new click sends one.
C11_PostOnlyOnAcceptedClick ==
    [][/\ (calls'.post = 1) <=>
            (ev'.op = "handleSubmit" /\ ~Blank(description) /\ ~isSubmitting)
       /\ calls'.post \in {0, 1}
       /\ BagCardinality(posts') = BagCardinality(posts) + calls'.post
                                     - (IF ev'.op = "postSettled" THEN 1 ELSE 0)
       /\ (ev.op = "postSettled" /\ submitStatus = "error" /\ calls'.post = 1)
             => ev'.op = "handleSubmit"]_vars

\* a click resubmitted a report whose first submission had settled in Error
C11_Witness ==
    /\ ev.op = "handleSubmit"
    /\ ev.from = "error"
    /\ calls.post = 1
    /\ BagCardinality(posts) = 1

\* C12: when every POST is answered or fails in the end, isSubmitting true
\* leads to isSubmitting false with submitStatus 'success' or 'error', and a
\* close request made while isSubmitting is false reaches onClose.
C12_SubmissionSettles ==
    /\ isSubmitting ~> (~isSubmitting /\ submitStatus \in {"success", "error"})
    /\ [][(ev'.op = "handleClose" /\ ~isSubmitting) => calls'.onClose = 1]_vars

\* a submission has settled and the close request after it was honoured
C12_Witness ==
    /\ ev.op = "handleClose"
    /\ ~ev.submitting
    /\ calls.onClose = 1
    /\ ~isOpen
    /\ ~isSubmitting
    /\ submitStatus \in {"success", "error"}

\* C13: at most one POST is in flight; one is in flight exactly while
\* isSubmitting is true, and then the Submit button and the textarea are
\* disabled: no submit click dispatches a second POST and no edit of the
\* description happens before the first one has settled.
C13_OneSubmissionInFlight ==
    /\ BagCardinality(posts) <= 1
    /\ isSubmitting <=> (posts # EmptyBag)
    /\ isSubmitting => (SubmitDisabled /\ TextareaDisabled)
    /\ (ev.op = "handleSubmit" /\ calls.post = 1) => BagCardinality(posts) = 1
    /\ (ev.op = "edit") => ~isSubmitting

\* a submission is in flight in an open modal whose description would
\* otherwise allow a click
C13_Witness ==
    /\ isOpen
    /\ isSubmitting
    /\ submitStatus # "success"
    /\ ~Blank(description)
    /\ BagCardinality(posts) = 1
    /\ SubmitDisabled /\ TextareaDisabled

\* C14: under a parent that closes only in answer to onClose, isSubmitting
\* implies isOpen; the modal is never opened while a request is in flight, so
\* every request in flight was sent during the current open and every outcome
\* is written while the modal that sent it is still open: no outcome is written
\* after a later open has reset the form, and the status left by an open is
\* 'idle' until a request of that open settles.
C14_SubmittingImpliesOpen ==
    /\ isSubmitting => isOpen
    /\ (ev.op = "open") => (~isSubmitting /\ posts = EmptyBag)
    /\ \A p \in BagToSet(posts) : p.current
    /\ (ev.op = "postSettled") => (ev.current /\ isOpen)

\* in a modal that has been closed and opened again, a close request was
\* suppressed and the submission then settled
C14_Witness ==
    /\ ev.op = "postSettled"
    /\ ev.current
    /\ isOpen
    /\ submitStatus = "success"
    /\ \E t \in BagToSet(tasks) : ~t.current

\* C15: within a collection the providers are requested by the step in which
\* the extension fetch settles and not before, and that step leaves systemInfo
\* as it was; systemInfo changes, and setSystemInfo is called, only in the step
\* in which the provider lookup settles, once, and the collection is over.
C15_DiagnosticsNeverPartial ==
    [][/\ (ev'.op = "extSettled") =>
             /\ UNCHANGED systemInfo
             /\ calls'.setSystemInfo = 0
             /\ calls'.providers = 1
             /\ BagCardinality(tasks') = BagCardinality(tasks)
       /\ (calls'.providers = 1) => ev'.op = "extSettled"
       /\ (systemInfo' # systemInfo \/ calls'.setSystemInfo = 1) =>
             ev'.op = "provSettled"
       /\ (ev'.op = "provSettled") =>
             /\ calls'.setSystemInfo = 1
             /\ systemInfo' # Null
             /\ BagCardinality(tasks') = BagCardinality(tasks) - 1
       /\ \A t \in BagToSet(tasks') : t.phase = "ext" => t.extensionCount = 0]_vars

\* the extension fetch of the first collection has settled with a count and
\* nothing has been published yet
C15_Witness ==
    /\ ev.op = "extSettled"
    /\ ev.count = MaxExt
    /\ calls.providers = 1
    /\ systemInfo = Null
    /\ \E t \in BagToSet(tasks) : t.phase = "prov" /\ t.extensionCount = MaxExt

\* C16: whenever the Submit button is rendered, the description is non-blank
\* and no submission is in flight, a click is accepted, whatever systemInfo is
\* and whether or not a collection is pending; the request it sends carries
\* the systemInfo (and description and recentErrors) of the moment of the
\* click, and a collection that settles afterwards leaves the request as it is.
C16_SubmitNotGatedOnDiagnostics ==
    /\ []((SubmitButtonRendered /\ ~Blank(description) /\ ~isSubmitting) =>
             ENABLED ClickSubmit)
    /\ []((ev.op = "handleSubmit" /\ calls.post = 1) =>
             \E p \in BagToSet(posts) :
                 /\ p.data.systemInfo = systemInfo
                 /\ p.data.description = description
                 /\ p.data.recentErrors = recentErrors)
    /\ [][(ev'.op \in {"extSettled", "provSettled"}) => UNCHANGED posts]_vars

\* a report was submitted before the diagnostics were there, and the
\* collection has settled while the request, carrying null, is still in flight
C16_Witness ==
    /\ ev.op = "provSettled"
    /\ isSubmitting
    /\ systemInfo # Null
    /\ \E p \in BagToSet(posts) : p.data.systemInfo = Null

\* C17: in every reachable state isSubmitting implies submitStatus 'idle',
\* and issueUrl is a non-empty string only when submitStatus is 'success'.
C17_NoOutcomeWhileSubmitting ==
    /\ isSubmitting => submitStatus = "idle"
    /\ Truthy(issueUrl) => submitStatus = "success"

\* a resubmission after an error: the error notice is gone while it is in
\* flight
C17_Witness ==
    /\ isSubmitting
    /\ submitStatus = "idle"
    /\ ev.op = "handleSubmit"
    /\ ev.from = "error"
    /\ issueUrl = ""
    /\ ~ManualReportLinkRendered

\* C18: the request sent for a description d has d non-blank, carries d itself
\* as its description, and has as title '[FAILURE REPORT] ' followed by d when
\* d has at most 60 characters, and by the first 60 characters of d and '...'
\* when d has more.
C18_TitleOfReport ==
    \A p \in BagToSet(posts) :
        LET d == p.data.description
            t == p.data.title
        IN  /\ d = description
            /\ ~Blank(d)
            /\ t[1] = "[FAILURE REPORT] "
            /\ IF Len(d) <= 60
               THEN Tail(t) = d
               ELSE /\ Len(t) = 1 + 60 + 3
                    /\ \A i \in 1..60 : t[1 + i] = d[i]
                    /\ \A i \in 62..64 : t[i] = "."

\* a description of 61 characters that begins with a space and ends with one
\* is in flight, untrimmed, under a title cut after 60 characters
C18_Witness ==
    /\ Len(description) = 61
    /\ Head(description) = " "
    /\ description[61] = " "
    /\ \E p \in BagToSet(posts) :
          /\ p.data.description = description
          /\ Len(p.data.title) = 64
          /\ p.data.title[61] = "a"
          /\ p.data.title[64] = "."

=============================================================================
